---- MODULE Spec2Model ----
(***************************************************************************)
(* Model of the course scheduler: the CP-SAT based ScheduleGenerator, the  *)
(* value objects of the domain model and the /courses API that persists    *)
(* what the generator returns.                                             *)
(*                                                                         *)
(*   SpecGen : one call of ScheduleGenerator.generate_schedule on inputs   *)
(*             drawn from bounded sets.                                    *)
(*   SpecApi : the /courses endpoints acting on the database.              *)
(*   SpecApiShort: the same endpoints with shorter schedule requests, for  *)
(*             the properties that quantify over the request of a step.    *)
(*   SpecDet : calls of one ConflictDetector method on one list of         *)
(*             courses drawn from a bounded set.                           *)
(*   SpecSlot: construction, comparison and flattening of TimeSlots.        *)
(*   SpecConc: several callers running generate_schedule and the detector  *)
(*             methods at the same time, one statement group at a time.    *)
(***************************************************************************)
EXTENDS Integers, Sequences, FiniteSets, TLC

VARIABLES
    course_requests,      \* argument: list of request dicts
    professors,           \* argument: list of Professor
    classrooms,           \* argument: list of Classroom
    available_timeslots,  \* argument: list of TimeSlot
    pc,                   \* "ready" before the call, "returned" / "raised" after
    scheduled_courses,    \* the list generate_schedule returned (<<>> if it raised)
    error,                \* the exception generate_schedule raised (NoException if none)
    solver_invoked,       \* TRUE once solver.Solve(model) has been called
    db_professors,        \* table professor, rows in insertion order
    db_classrooms,        \* table classroom, rows in insertion order
    db_courses,           \* table course, rows in insertion order
    response,             \* the answer of the last API request
    det_courses,          \* argument of the detector: list of Course
    det_method,           \* "professor": find_professor_conflicts, "classroom": find_classroom_conflicts
    det_history,          \* the outcomes of the detector calls made so far, oldest first
    conc_calls,           \* per concurrent caller: the method it calls and its arguments
    conc_pc,              \* per concurrent caller: where its call stands
    conc_frames,          \* the objects the calls allocate: CpModel, solver, conflicts, loop position
    conc_outcome,         \* per concurrent caller: what its call returned or raised
    slot_args,            \* arguments (weekday, period) of two TimeSlot constructions
    slot_results,         \* what the two constructions returned or raised
    slot_equal,           \* result of comparing the two TimeSlots with ==
    slot_round_trip       \* Course.from_timeslot(..., timeslot=t).timeslot of the first

vars == <<course_requests, professors, classrooms, available_timeslots,
          pc, scheduled_courses, error, solver_invoked,
          db_professors, db_classrooms, db_courses, response,
          det_courses, det_method, det_history,
          conc_calls, conc_pc, conc_frames, conc_outcome,
          slot_args, slot_results, slot_equal, slot_round_trip>>

det_vars == <<det_courses, det_method, det_history>>

conc_vars == <<conc_calls, conc_pc, conc_frames, conc_outcome>>

slot_vars == <<slot_args, slot_results, slot_equal, slot_round_trip>>

db == <<db_professors, db_classrooms, db_courses>>

inputs == <<course_requests, professors, classrooms, available_timeslots>>

(***************************************************************************)
(* Bounds of the model. The API hands the generator the leading GridSize   *)
(* slots of its 5 x 8 grid; its requests name the professors of ProfIds    *)
(* and the one classroom of ApiRoomIds.                                    *)
(***************************************************************************)
MaxReq == 2      \* longest course_requests list of a direct call
MaxSlots == 2    \* longest available_timeslots list of a direct call
MaxApiReq == 2   \* longest course_requests list of an API request
GridSize == 2    \* number of slots of the API's grid that are kept
MaxCourses == 3  \* longest list handed to the conflict detector
MaxCalls == 2    \* detector calls made on one list
NumCallers == 2  \* callers running at the same time
MaxPeriodInput == 14  \* largest period handed to the TimeSlot constructor
MaxShortReq == 1 \* longest course_requests list of an API request in SpecApiShort

CourseIds == {"c1", "c2", "c3"}
ApiCourseIds == {"c1", "c2"}
ApiRoomIds == {"r1"}
ProfIds == {"p1", "p2"}
RoomIds == {"r1", "r2"}
CourseNames == {"ML"}

(***************************************************************************)
(* domain/models.py                                                        *)
(***************************************************************************)
\* class Weekday(Enum): the members and their values
WeekdayMembers == {"MONDAY", "TUESDAY", "WEDNESDAY", "THURSDAY", "FRIDAY"}

WeekdayValue(m) ==
    CASE m = "MONDAY" -> 1
      [] m = "TUESDAY" -> 2
      [] m = "WEDNESDAY" -> 3
      [] m = "THURSDAY" -> 4
      [] m = "FRIDAY" -> 5

\* Weekday(v): lookup of a member by value; ValueError when no member has it
WeekdayHasValue(v) == \E m \in WeekdayMembers : WeekdayValue(m) = v

Weekday(v) == CHOOSE m \in WeekdayMembers : WeekdayValue(m) = v

MIN_PERIOD == 1
MAX_PERIOD == 12

\* TimeSlot.__post_init__: the period check made at construction
TimeSlotPeriodOk(period) == MIN_PERIOD <= period /\ period <= MAX_PERIOD

\* TimeSlot(weekday=..., period=...): a frozen dataclass, compared field by field
TimeSlot(weekday, period) == [weekday |-> weekday, period |-> period]

InvalidPeriod == [type |-> "ValueError", message |-> "Period must be between 1 and 12"]

\* a constructor that moves the period into the range instead of raising
construct_TimeSlot_clamping(weekday, period) ==
    [kind |-> "returned",
     value |-> <<TimeSlot(weekday, IF period < MIN_PERIOD THEN MIN_PERIOD
                                   ELSE IF period > MAX_PERIOD THEN MAX_PERIOD
                                   ELSE period)>>,
     error |-> [type |-> "", message |-> ""]]

\* the call TimeSlot(weekday=..., period=...): __init__ stores the fields, then
\* __post_init__ raises ValueError for a period outside 1..12
construct_TimeSlot(weekday, period) ==
    IF TimeSlotPeriodOk(period)
    THEN [kind |-> "returned", value |-> <<TimeSlot(weekday, period)>>,
          error |-> [type |-> "", message |-> ""]]
    ELSE [kind |-> "raised", value |-> <<>>, error |-> InvalidPeriod]

\* a comparison that looks at the period only
TimeSlot_eq_by_period(a, b) == a.period = b.period

\* TimeSlot.__eq__ as @dataclass generates it: the tuples of the fields are compared
TimeSlot_eq(a, b) == <<a.weekday, a.period>> = <<b.weekday, b.period>>

\* Professor(id=..., name=...)
Professor(id) == [id |-> id, name |-> id]

\* Classroom(id=..., name=..., capacity=...)
Classroom(id) == [id |-> id, name |-> id, capacity |-> 50]

\* from_timeslot with the two columns filled from the wrong fields
from_timeslot_swapped(id, name, professor_id, classroom_id, timeslot) ==
    [id |-> id, name |-> name,
     professor_id |-> professor_id, classroom_id |-> classroom_id,
     weekday |-> timeslot.period, period |-> WeekdayValue(timeslot.weekday)]

\* Course.from_timeslot: the TimeSlot is flattened into weekday.value and period
from_timeslot(id, name, professor_id, classroom_id, timeslot) ==
    [id |-> id, name |-> name,
     professor_id |-> professor_id, classroom_id |-> classroom_id,
     weekday |-> WeekdayValue(timeslot.weekday), period |-> timeslot.period]

\* a property that rebuilds the period only
timeslot_on_monday(course) == TimeSlot("MONDAY", course.period)

\* Course.timeslot: the TimeSlot rebuilt from the two columns
timeslot(course) == TimeSlot(Weekday(course.weekday), course.period)

(***************************************************************************)
(* services/schedule_generator.py                                          *)
(***************************************************************************)
\* keys of course_timeslot_vars: one IntVar per distinct request id (a later
\* request with the same id overwrites the dict entry of the earlier one)
course_timeslot_vars(reqs) == {reqs[i].id : i \in 1..Len(reqs)}

\* a domain that leaves the last slot out: NewIntVar(0, len(...) - 2, ...)
VarDomain_without_last(slots) == 0..(Len(slots) - 2)

\* domain of every IntVar: NewIntVar(0, len(available_timeslots) - 1, ...)
VarDomain(slots) == 0..(Len(slots) - 1)

\* prof_courses: professor_id -> list of the ids of its requests, in input order
prof_courses(reqs) ==
    [p \in {reqs[i].professor_id : i \in 1..Len(reqs)} |->
        LET mine == SelectSeq(reqs, LAMBDA c : c.professor_id = p)
        IN  [k \in 1..Len(mine) |-> mine[k].id]]

\* room_courses: classroom_id -> list of the ids of its requests, in input order
room_courses(reqs) ==
    [r \in {reqs[i].classroom_id : i \in 1..Len(reqs)} |->
        LET mine == SelectSeq(reqs, LAMBDA c : c.classroom_id = r)
        IN  [k \in 1..Len(mine) |-> mine[k].id]]

\* model.AddAllDifferent([course_timeslot_vars[cid] for cid in course_ids]):
\* the listed variables take pairwise different values (a variable listed
\* twice can never differ from itself)
AllDifferent(course_ids, value) ==
    \A i, j \in 1..Len(course_ids) :
        i < j => value[course_ids[i]] # value[course_ids[j]]

\* no constraint added for any group
GroupConstraints_unconstrained(groups, value) == TRUE

\* the constraints added for the groups of more than one course
GroupConstraints(groups, value) ==
    \A g \in DOMAIN groups :
        Len(groups[g]) > 1 => AllDifferent(groups[g], value)

\* the assignments of the IntVars that satisfy the CpModel
Solutions(reqs, slots) ==
    {value \in [course_timeslot_vars(reqs) -> VarDomain(slots)] :
        /\ GroupConstraints(prof_courses(reqs), value)
        /\ GroupConstraints(room_courses(reqs), value)}

\* status of solver.Solve(model): a model with an IntVar of empty domain
\* (NewIntVar(0, -1, ...)) does not validate, a model without solution is
\* infeasible; otherwise the search, which has no limit, ends with a solution
SolveStatus(reqs, slots) ==
    IF course_timeslot_vars(reqs) # {} /\ VarDomain(slots) = {} THEN "MODEL_INVALID"
    ELSE IF Solutions(reqs, slots) = {} THEN "INFEASIBLE"
    ELSE "OPTIMAL"

\* the loop walking course_requests backwards
BuildCourses_reversed(reqs, slots, value) ==
    [k \in 1..Len(reqs) |->
        LET r == reqs[Len(reqs) + 1 - k]
        IN  [id |-> r.id, name |-> r.name,
             professor_id |-> r.professor_id, classroom_id |-> r.classroom_id,
             weekday |-> WeekdayValue(slots[value[r.id] + 1].weekday),
             period |-> slots[value[r.id] + 1].period]]

\* the loop that builds scheduled_courses from solver.Value(...)
BuildCourses(reqs, slots, value) ==
    [k \in 1..Len(reqs) |->
        from_timeslot(reqs[k].id, reqs[k].name,
                      reqs[k].professor_id, reqs[k].classroom_id,
                      slots[value[reqs[k].id] + 1])]

NoException == [type |-> "", message |-> ""]

NoValidSchedule ==
    [type |-> "ValueError",
     message |-> "No valid schedule found - constraints cannot be satisfied"]

Returned(courses, solved) ==
    [kind |-> "returned", courses |-> courses, error |-> NoException, solved |-> solved]

Raised(err, solved) ==
    [kind |-> "raised", courses |-> <<>>, error |-> err, solved |-> solved]

\* generate_schedule treating an empty request list as an error
generate_schedule_rejecting_empty(reqs, profs, rooms, slots) ==
    IF Len(reqs) = 0 \/ SolveStatus(reqs, slots) \notin {"OPTIMAL", "FEASIBLE"}
    THEN {[kind |-> "raised", courses |-> <<>>, error |-> NoValidSchedule,
           solved |-> Len(reqs) # 0]}
    ELSE {[kind |-> "returned", courses |-> BuildCourses(reqs, slots, value),
           error |-> NoException, solved |-> TRUE] :
              value \in Solutions(reqs, slots)}

UnknownResource == [type |-> "ValueError", message |-> "Unknown professor or classroom"]

\* generate_schedule looking every referenced id up in the catalogs it is handed
generate_schedule_checking_catalogs(reqs, profs, rooms, slots) ==
    IF Len(reqs) = 0 THEN {Returned(<<>>, FALSE)}
    ELSE IF \E i \in 1..Len(reqs) :
                \/ \A k \in 1..Len(profs) : profs[k].id # reqs[i].professor_id
                \/ \A k \in 1..Len(rooms) : rooms[k].id # reqs[i].classroom_id
         THEN {Raised(UnknownResource, FALSE)}
         ELSE IF SolveStatus(reqs, slots) \in {"OPTIMAL", "FEASIBLE"}
              THEN {Returned(BuildCourses(reqs, slots, value), TRUE) :
                        value \in Solutions(reqs, slots)}
              ELSE {Raised(NoValidSchedule, TRUE)}

\* generate_schedule: the set of outcomes the call can have (the solver may
\* return any satisfying assignment)
generate_schedule(reqs, profs, rooms, slots) ==
    IF Len(reqs) = 0 THEN {Returned(<<>>, FALSE)}
    ELSE IF SolveStatus(reqs, slots) \in {"OPTIMAL", "FEASIBLE"}
         THEN {Returned(BuildCourses(reqs, slots, value), TRUE) :
                   value \in Solutions(reqs, slots)}
         ELSE {Raised(NoValidSchedule, TRUE)}

\* a body that consumes available_timeslots (pop) while it assigns
args_after_call_popping(reqs, profs, rooms, slots) ==
    <<reqs, profs, rooms, IF slots = <<>> THEN slots ELSE Tail(slots)>>

\* the four argument lists as the call leaves them: the body only iterates
\* over course_requests, takes len() of available_timeslots and indexes it,
\* and never touches professors and classrooms
args_after_call(reqs, profs, rooms, slots) == <<reqs, profs, rooms, slots>>

\* the caller's lists after a call
ArgsBecome(args) ==
    /\ course_requests' = args[1]
    /\ professors' = args[2]
    /\ classrooms' = args[3]
    /\ available_timeslots' = args[4]

(***************************************************************************)
(* services/conflict_detector.py                                           *)
(***************************************************************************)
\* the same index pairs, the last visited one first
RECURSIVE LoopPairs_reversed(_, _, _)
LoopPairs_reversed(n, i, j) ==
    IF i > n THEN <<>>
    ELSE IF j > n THEN LoopPairs_reversed(n, i + 1, i + 2)
    ELSE LoopPairs_reversed(n, i, j + 1) \o <<(<<i, j>>)>>

\* only neighbours: "for j in range(i + 1, min(i + 2, len(courses)))"
LoopPairs_adjacent(n, i, j) == [k \in 1..(IF n > 0 THEN n - 1 ELSE 0) |-> <<k, k + 1>>]

\* the index pairs visited by the loops "for i in range(len(courses)):
\* for j in range(i + 1, len(courses))", in the order they are visited
RECURSIVE LoopPairs(_, _, _)
LoopPairs(n, i, j) ==
    IF i > n THEN <<>>
    ELSE IF j > n THEN LoopPairs(n, i + 1, i + 2)
    ELSE <<(<<i, j>>)>> \o LoopPairs(n, i, j + 1)

\* a professor matcher that compares the rooms
professor_matcher_by_classroom(a, b) == a.classroom_id = b.classroom_id

\* lambda a, b: a.professor_id == b.professor_id
professor_matcher(a, b) == a.professor_id = b.professor_id

\* lambda a, b: a.classroom_id == b.classroom_id
classroom_matcher(a, b) == a.classroom_id = b.classroom_id

\* the resource_matcher a caller passes to _find_conflicts
resource_matcher(which, a, b) ==
    IF which = "professor" THEN professor_matcher(a, b) ELSE classroom_matcher(a, b)

\* a finder that reports each course once, with the first later course it
\* clashes with ("break" after the append)
find_conflicts_first_only(courses, which) ==
    LET hit(i, j) == /\ resource_matcher(which, courses[i], courses[j])
                     /\ timeslot(courses[i]) = timeslot(courses[j])
        hits == SelectSeq(LoopPairs(Len(courses), 1, 2),
                          LAMBDA p : /\ hit(p[1], p[2])
                                     /\ \A j \in (p[1] + 1)..(p[2] - 1) : ~hit(p[1], j))
    IN  [k \in 1..Len(hits) |-> <<courses[hits[k][1]], courses[hits[k][2]]>>]

\* _find_conflicts: the pairs appended to conflicts, in order
find_conflicts(courses, which) ==
    LET hits == SelectSeq(LoopPairs(Len(courses), 1, 2),
                          LAMBDA p : /\ resource_matcher(which, courses[p[1]], courses[p[2]])
                                     /\ timeslot(courses[p[1]]) = timeslot(courses[p[2]]))
    IN  [k \in 1..Len(hits) |-> <<courses[hits[k][1]], courses[hits[k][2]]>>]

\* Course.timeslot raises ValueError when the columns hold no TimeSlot:
\* Weekday(self.weekday) has no member, or __post_init__ rejects the period
timeslot_raises(course) ==
    ~WeekdayHasValue(course.weekday) \/ ~TimeSlotPeriodOk(course.period)

InvalidWeekday == [type |-> "ValueError", message |-> "not a valid Weekday"]

timeslot_error(course) ==
    IF ~WeekdayHasValue(course.weekday) THEN InvalidWeekday ELSE InvalidPeriod

\* the visited pairs at which "course_a.timeslot == course_b.timeslot" raises:
\* the comparison is evaluated only when resource_matcher holds
raising_pairs(courses, which) ==
    SelectSeq(LoopPairs(Len(courses), 1, 2),
              LAMBDA p : /\ resource_matcher(which, courses[p[1]], courses[p[2]])
                         /\ (timeslot_raises(courses[p[1]]) \/ timeslot_raises(courses[p[2]])))

\* a call of _find_conflicts: the list it returns, or the exception of the
\* first visited pair whose timeslots cannot be built (course_a's first)
find_conflicts_call(courses, which) ==
    LET bad == raising_pairs(courses, which)
    IN  IF bad # <<>>
        THEN [kind |-> "raised", conflicts |-> <<>>,
              error |-> IF timeslot_raises(courses[bad[1][1]])
                        THEN timeslot_error(courses[bad[1][1]])
                        ELSE timeslot_error(courses[bad[1][2]])]
        ELSE [kind |-> "returned", conflicts |-> find_conflicts(courses, which),
              error |-> NoException]

\* a finder that consumes its argument ("courses.pop(0)")
courses_after_detection_popping(courses) ==
    IF courses = <<>> THEN <<>> ELSE Tail(courses)

\* the list handed to the detector as the call leaves it: the loops only read
courses_after_detection(courses) == courses

\* a classroom check that finds nothing
find_classroom_conflicts_none(courses) == <<>>

find_professor_conflicts(courses) == find_conflicts(courses, "professor")

find_classroom_conflicts(courses) == find_conflicts(courses, "classroom")

(***************************************************************************)
(* db/repository.py                                                        *)
(***************************************************************************)
RowIds(table) == {table[i].id : i \in 1..Len(table)}

\* session.add(row); session.commit(): the INSERT fails on a primary key that
\* is already in the table (IntegrityError), and then nothing is committed
InsertOk(table, row) == row.id \notin RowIds(table)

add_row(table, row) == IF InsertOk(table, row) THEN Append(table, row) ELSE table

\* get_professor_by_id / get_classroom_by_id: is there a row with this id
get_by_id_found(table, id) == id \in RowIds(table)

(***************************************************************************)
(* api/routes/courses.py                                                   *)
(***************************************************************************)
Response(op, status, detail) ==
    [op |-> op, status |-> status, detail |-> detail, courses |-> <<>>,
     professor_conflicts |-> 0, classroom_conflicts |-> 0,
     prof_details |-> <<>>, room_details |-> <<>>]

NoResponse == Response("none", 0, <<>>)

\* an exception no handler catches: the server answers 500
ServerError(op) == Response(op, 500, <<"IntegrityError">>)

\* POST /courses/professors
create_professor(id) ==
    /\ db_professors' = add_row(db_professors, Professor(id))
    /\ response' = IF InsertOk(db_professors, Professor(id))
                   THEN Response("create_professor", 201, <<>>)
                   ELSE ServerError("create_professor")
    /\ UNCHANGED <<db_classrooms, db_courses>>

\* POST /courses/classrooms
create_classroom(id) ==
    /\ db_classrooms' = add_row(db_classrooms, Classroom(id))
    /\ response' = IF InsertOk(db_classrooms, Classroom(id))
                   THEN Response("create_classroom", 201, <<>>)
                   ELSE ServerError("create_classroom")
    /\ UNCHANGED <<db_professors, db_courses>>

\* POST /courses/ looking for the professor before it builds the TimeSlot
create_course_result_professor_first(id, name, professor_id, classroom_id, weekday, period) ==
    IF ~get_by_id_found(db_professors, professor_id)
    THEN [stored |-> <<>>, response |-> Response("create_course", 404, <<"Professor not found">>)]
    ELSE IF ~WeekdayHasValue(weekday) \/ ~TimeSlotPeriodOk(period)
    THEN [stored |-> <<>>, response |-> Response("create_course", 400, <<"Invalid timeslot">>)]
    ELSE IF ~get_by_id_found(db_classrooms, classroom_id)
    THEN [stored |-> <<>>, response |-> Response("create_course", 404, <<"Classroom not found">>)]
    ELSE LET course == from_timeslot(id, name, professor_id, classroom_id,
                                     TimeSlot(Weekday(weekday), period))
         IN  IF InsertOk(db_courses, course)
             THEN [stored |-> <<course>>,
                   response |-> [Response("create_course", 201, <<>>)
                                     EXCEPT !.courses = <<course>>]]
             ELSE [stored |-> <<>>, response |-> ServerError("create_course")]

\* the answer of POST /courses/ and the course it stores, if any
create_course_result(id, name, professor_id, classroom_id, weekday, period) ==
    IF ~WeekdayHasValue(weekday) \/ ~TimeSlotPeriodOk(period)
    THEN [stored |-> <<>>, response |-> Response("create_course", 400, <<"Invalid timeslot">>)]
    ELSE IF ~get_by_id_found(db_professors, professor_id)
    THEN [stored |-> <<>>, response |-> Response("create_course", 404, <<"Professor not found">>)]
    ELSE IF ~get_by_id_found(db_classrooms, classroom_id)
    THEN [stored |-> <<>>, response |-> Response("create_course", 404, <<"Classroom not found">>)]
    ELSE LET course == from_timeslot(id, name, professor_id, classroom_id,
                                     TimeSlot(Weekday(weekday), period))
         IN  IF InsertOk(db_courses, course)
             THEN [stored |-> <<course>>,
                   response |-> [Response("create_course", 201, <<>>)
                                     EXCEPT !.courses = <<course>>]]
             ELSE [stored |-> <<>>, response |-> ServerError("create_course")]

\* POST /courses/
create_course(id, name, professor_id, classroom_id, weekday, period) ==
    LET r == create_course_result(id, name, professor_id, classroom_id, weekday, period)
    IN  /\ db_courses' = db_courses \o r.stored
        /\ response' = r.response
        /\ UNCHANGED <<db_professors, db_classrooms>>

\* one entry of prof_details / room_details
ConflictDetail(pair, resource_id) ==
    [course_a |-> [id |-> pair[1].id, name |-> pair[1].name],
     course_b |-> [id |-> pair[2].id, name |-> pair[2].name],
     resource_id |-> resource_id,
     timeslot |-> [weekday |-> pair[1].weekday, period |-> pair[1].period]]

\* POST /courses/check-conflicts
check_conflicts ==
    LET prof_conflicts == find_professor_conflicts(db_courses)
        room_conflicts == find_classroom_conflicts(db_courses)
    IN  /\ response' =
               [Response("check_conflicts", 200, <<>>) EXCEPT
                    !.professor_conflicts = Len(prof_conflicts),
                    !.classroom_conflicts = Len(room_conflicts),
                    !.prof_details =
                        [k \in 1..Len(prof_conflicts) |->
                            ConflictDetail(prof_conflicts[k], prof_conflicts[k][1].professor_id)],
                    !.room_details =
                        [k \in 1..Len(room_conflicts) |->
                            ConflictDetail(room_conflicts[k], room_conflicts[k][1].classroom_id)]]
        /\ UNCHANGED db

GRID_DAYS == 5
GRID_PERIODS == 8

\* [TimeSlot(Weekday(day), period) for day in range(1, 6) for period in range(1, 9)]
FullGrid ==
    [k \in 1..(GRID_DAYS * GRID_PERIODS) |->
        TimeSlot(Weekday(((k - 1) \div GRID_PERIODS) + 1), ((k - 1) % GRID_PERIODS) + 1)]

\* the slots handed to the generator: the leading GridSize slots of the grid
ApiTimeslots == SubSeq(FullGrid, 1, GridSize)

\* the existence checks left out
missing_professors_unchecked(reqs) == {}

missing_classrooms_unchecked(reqs) == {}

\* missing_professors / missing_classrooms of a request
missing_professors(reqs) ==
    {reqs[i].professor_id : i \in 1..Len(reqs)} \ RowIds(db_professors)

missing_classrooms(reqs) ==
    {reqs[i].classroom_id : i \in 1..Len(reqs)} \ RowIds(db_classrooms)

\* error_parts of the 404 answer
error_parts(reqs) ==
    (IF missing_professors(reqs) # {} THEN <<"Professors not found">> ELSE <<>>)
    \o (IF missing_classrooms(reqs) # {} THEN <<"Classrooms not found">> ELSE <<>>)

\* the loop "for course in courses: repo.add_course(course)": every course is
\* committed on its own; the first INSERT that fails ends the request
RECURSIVE SaveCourses(_, _, _)
SaveCourses(table, courses, k) ==
    IF k > Len(courses) THEN [table |-> table, failed |-> FALSE]
    ELSE IF ~InsertOk(table, courses[k]) THEN [table |-> table, failed |-> TRUE]
    ELSE SaveCourses(add_row(table, courses[k]), courses, k + 1)

\* a request that does not reach the generator
NoGeneratorCall ==
    /\ pc' = "ready"
    /\ ArgsBecome(<<(<<>>), <<>>, <<>>, <<>>>>)
    /\ scheduled_courses' = <<>>
    /\ error' = NoException
    /\ solver_invoked' = FALSE

\* the ValueError left uncaught
generate_error_response_uncaught(exc) ==
    [op |-> "generate", status |-> 500, detail |-> <<exc.type>>, courses |-> <<>>,
     professor_conflicts |-> 0, classroom_conflicts |-> 0,
     prof_details |-> <<>>, room_details |-> <<>>]

\* the answer to a ValueError of the generator
generate_error_response(exc) == Response("generate", 400, <<exc.message>>)

\* POST /courses/schedules/generate
generate_schedule_endpoint(reqs) ==
    IF missing_professors(reqs) # {} \/ missing_classrooms(reqs) # {}
    THEN /\ response' = Response("generate", 404, error_parts(reqs))
         /\ NoGeneratorCall
         /\ UNCHANGED db
    ELSE \E out \in generate_schedule(reqs, db_professors, db_classrooms, ApiTimeslots) :
            /\ pc' = out.kind
            /\ scheduled_courses' = out.courses
            /\ error' = out.error
            /\ solver_invoked' = out.solved
            /\ ArgsBecome(args_after_call(reqs, db_professors, db_classrooms, ApiTimeslots))
            /\ IF out.kind = "raised"
               THEN /\ response' = generate_error_response(out.error)
                    /\ UNCHANGED db
               ELSE LET saved == SaveCourses(db_courses, out.courses, 1)
                    IN  /\ db_courses' = saved.table
                        /\ response' = IF saved.failed THEN ServerError("generate")
                                       ELSE [Response("generate", 200, <<>>)
                                                 EXCEPT !.courses = out.courses]
                        /\ UNCHANGED <<db_professors, db_classrooms>>

(***************************************************************************)
(* Inputs of one call                                                      *)
(***************************************************************************)
SeqsUpTo(S, n) == UNION {[1..k -> S] : k \in 0..n}

Requests ==
    [id : CourseIds, name : CourseNames, professor_id : ProfIds, classroom_id : RoomIds]

SlotUniverse ==
    {TimeSlot("MONDAY", 1), TimeSlot("MONDAY", 2), TimeSlot("TUESDAY", 1)}

ProfessorLists == {<<>>, <<Professor("p1")>>, <<Professor("p1"), Professor("p2")>>}
ClassroomLists == {<<>>, <<Classroom("r1"), Classroom("r2")>>}

\* no detector call is part of the run
NoDetectorInput ==
    /\ det_courses = <<>>
    /\ det_method = "professor"
    /\ det_history = <<>>

\* no TimeSlot is built outside the calls of the run
NoSlotCall ==
    /\ slot_args = <<>>
    /\ slot_results = <<>>
    /\ slot_equal = <<>>
    /\ slot_round_trip = <<>>

\* no caller runs beside the one of the run
NoConcurrentCalls ==
    /\ conc_calls = <<>>
    /\ conc_pc = <<>>
    /\ conc_frames = <<>>
    /\ conc_outcome = <<>>

InitGen ==
    /\ course_requests \in SeqsUpTo(Requests, MaxReq)
    /\ professors \in ProfessorLists
    /\ classrooms \in ClassroomLists
    /\ available_timeslots \in SeqsUpTo(SlotUniverse, MaxSlots)
    /\ pc = "ready"
    /\ scheduled_courses = <<>>
    /\ error = NoException
    /\ solver_invoked = FALSE
    /\ db_professors = <<>>
    /\ db_classrooms = <<>>
    /\ db_courses = <<>>
    /\ response = NoResponse
    /\ NoDetectorInput
    /\ NoConcurrentCalls
    /\ NoSlotCall

\* one call of ScheduleGenerator().generate_schedule(...)
CallGenerate ==
    /\ pc = "ready"
    /\ \E out \in generate_schedule(course_requests, professors, classrooms,
                                    available_timeslots) :
        /\ pc' = out.kind
        /\ scheduled_courses' = out.courses
        /\ error' = out.error
        /\ solver_invoked' = out.solved
    /\ ArgsBecome(args_after_call(course_requests, professors, classrooms,
                                  available_timeslots))
    /\ UNCHANGED <<db, response, det_vars, conc_vars, slot_vars>>

NextGen == CallGenerate

SpecGen == InitGen /\ [][NextGen]_vars

(***************************************************************************)
(* Requests to the API                                                     *)
(***************************************************************************)
ApiRequests ==
    [id : ApiCourseIds, name : CourseNames, professor_id : ProfIds, classroom_id : ApiRoomIds]

WeekdayInputs == {0, 1, 6}
PeriodInputs == {0, 12, 13}

InitApi ==
    /\ course_requests = <<>>
    /\ professors = <<>>
    /\ classrooms = <<>>
    /\ available_timeslots = <<>>
    /\ pc = "ready"
    /\ scheduled_courses = <<>>
    /\ error = NoException
    /\ solver_invoked = FALSE
    /\ db_professors = <<>>
    /\ db_classrooms = <<>>
    /\ db_courses = <<>>
    /\ response = NoResponse
    /\ NoDetectorInput
    /\ NoConcurrentCalls
    /\ NoSlotCall

CreateProfessor == \E id \in ProfIds : create_professor(id) /\ NoGeneratorCall /\ UNCHANGED <<det_vars, conc_vars, slot_vars>>

CreateClassroom == \E id \in ApiRoomIds : create_classroom(id) /\ NoGeneratorCall /\ UNCHANGED <<det_vars, conc_vars, slot_vars>>

CreateCourse ==
    \E id \in ApiCourseIds, name \in CourseNames, p \in ProfIds, r \in ApiRoomIds,
       weekday \in WeekdayInputs, period \in PeriodInputs :
        create_course(id, name, p, r, weekday, period) /\ NoGeneratorCall
            /\ UNCHANGED <<det_vars, conc_vars, slot_vars>>

CheckConflicts == check_conflicts /\ NoGeneratorCall /\ UNCHANGED <<det_vars, conc_vars, slot_vars>>

GenerateSchedule ==
    \E reqs \in SeqsUpTo(ApiRequests, MaxApiReq) :
        generate_schedule_endpoint(reqs) /\ UNCHANGED <<det_vars, conc_vars, slot_vars>>

NextApi ==
    \/ CreateProfessor
    \/ CreateClassroom
    \/ CreateCourse
    \/ CheckConflicts
    \/ GenerateSchedule

SpecApi == InitApi /\ [][NextApi]_vars

\* POST /courses/schedules/generate with at most MaxShortReq requests
GenerateShortSchedule ==
    \E reqs \in SeqsUpTo(ApiRequests, MaxShortReq) :
        generate_schedule_endpoint(reqs) /\ UNCHANGED <<det_vars, conc_vars, slot_vars>>

NextApiShort ==
    \/ CreateProfessor
    \/ CreateClassroom
    \/ CreateCourse
    \/ CheckConflicts
    \/ GenerateShortSchedule

SpecApiShort == InitApi /\ [][NextApiShort]_vars

(***************************************************************************)
(* Calls of the conflict detector                                          *)
(***************************************************************************)
Course(id, professor_id, classroom_id, weekday, period) ==
    [id |-> id, name |-> "ML", professor_id |-> professor_id,
     classroom_id |-> classroom_id, weekday |-> weekday, period |-> period]

\* the Course objects a list may hold: Course is a table model, so its
\* constructor accepts any weekday and period
DetCourses ==
    {Course("c1", "p1", "r1", 1, 1),
     Course("c2", "p1", "r1", 1, 1),
     Course("c3", "p1", "r1", 1, 1),
     Course("c2", "p2", "r1", 1, 1),     \* another professor in the same room
     Course("c2", "p1", "r2", 1, 1),     \* the same professor in another room
     Course("c2", "p1", "r1", 1, 2),     \* another period
     Course("c3", "p1", "r1", 2, 1),     \* another weekday
     Course("c1", "p2", "r2", 2, 1),
     Course("c3", "p1", "r1", 0, 1),     \* weekday column outside Weekday
     Course("c3", "p2", "r2", 1, 13)}    \* period column outside 1..12

InitDet ==
    /\ course_requests = <<>>
    /\ professors = <<>>
    /\ classrooms = <<>>
    /\ available_timeslots = <<>>
    /\ pc = "ready"
    /\ scheduled_courses = <<>>
    /\ error = NoException
    /\ solver_invoked = FALSE
    /\ db_professors = <<>>
    /\ db_classrooms = <<>>
    /\ db_courses = <<>>
    /\ response = NoResponse
    /\ det_courses \in SeqsUpTo(DetCourses, MaxCourses)
    /\ det_method \in {"professor", "classroom"}
    /\ det_history = <<>>
    /\ NoConcurrentCalls
    /\ NoSlotCall

\* one call of find_professor_conflicts / find_classroom_conflicts
CallDetector ==
    /\ Len(det_history) < MaxCalls
    /\ det_history' = Append(det_history, find_conflicts_call(det_courses, det_method))
    /\ det_courses' = courses_after_detection(det_courses)
    /\ UNCHANGED <<det_method, inputs, pc, scheduled_courses, error, solver_invoked,
                   db, response, conc_vars, slot_vars>>

NextDet == CallDetector

SpecDet == InitDet /\ [][NextDet]_vars

(***************************************************************************)
(* TimeSlot values                                                         *)
(***************************************************************************)
PeriodUniverse == (0 - 1)..MaxPeriodInput

SlotArgs == WeekdayMembers \X PeriodUniverse

InitSlot ==
    /\ course_requests = <<>>
    /\ professors = <<>>
    /\ classrooms = <<>>
    /\ available_timeslots = <<>>
    /\ pc = "ready"
    /\ scheduled_courses = <<>>
    /\ error = NoException
    /\ solver_invoked = FALSE
    /\ db_professors = <<>>
    /\ db_classrooms = <<>>
    /\ db_courses = <<>>
    /\ response = NoResponse
    /\ NoDetectorInput
    /\ NoConcurrentCalls
    /\ slot_args \in SlotArgs \X SlotArgs
    /\ slot_results = <<>>
    /\ slot_equal = <<>>
    /\ slot_round_trip = <<>>

\* a = TimeSlot(weekday, period); b = TimeSlot(weekday, period)
ConstructSlots ==
    /\ slot_results = <<>>
    /\ slot_results' = <<construct_TimeSlot(slot_args[1][1], slot_args[1][2]),
                         construct_TimeSlot(slot_args[2][1], slot_args[2][2])>>
    /\ UNCHANGED <<slot_args, slot_equal, slot_round_trip>>

\* a == b
CompareSlots ==
    /\ slot_results # <<>>
    /\ slot_results[1].kind = "returned"
    /\ slot_results[2].kind = "returned"
    /\ slot_equal = <<>>
    /\ slot_equal' = <<TimeSlot_eq(slot_results[1].value[1], slot_results[2].value[1])>>
    /\ UNCHANGED <<slot_args, slot_results, slot_round_trip>>

\* Course.from_timeslot(id=..., ..., timeslot=a).timeslot
RoundTrip ==
    /\ slot_results # <<>>
    /\ slot_results[1].kind = "returned"
    /\ slot_round_trip = <<>>
    /\ slot_round_trip' =
           <<timeslot(from_timeslot("c1", "ML", "p1", "r1", slot_results[1].value[1]))>>
    /\ UNCHANGED <<slot_args, slot_results, slot_equal>>

NextSlot ==
    /\ \/ ConstructSlots
       \/ CompareSlots
       \/ RoundTrip
    /\ UNCHANGED <<inputs, pc, scheduled_courses, error, solver_invoked, db, response,
                   det_vars, conc_vars>>

SpecSlot == InitSlot /\ [][NextSlot]_vars

(***************************************************************************)
(* Concurrent calls of the two services                                    *)
(***************************************************************************)
Callers == 1..NumCallers

Request(id, professor_id, classroom_id) ==
    [id |-> id, name |-> "ML", professor_id |-> professor_id, classroom_id |-> classroom_id]

GenerateCall(reqs, slots) ==
    [op |-> "generate", course_requests |-> reqs, available_timeslots |-> slots,
     courses |-> <<>>, method |-> ""]

DetectCall(method, courses) ==
    [op |-> "detect", course_requests |-> <<>>, available_timeslots |-> <<>>,
     courses |-> courses, method |-> method]

\* the calls a caller may make
ConcCalls ==
    LET q1 == Request("c1", "p1", "r1")
        q2 == Request("c2", "p1", "r2")
        q3 == Request("c2", "p2", "r2")
        q4 == Request("c3", "p2", "r1")
        mon1 == TimeSlot("MONDAY", 1)
        mon2 == TimeSlot("MONDAY", 2)
        a == Course("c1", "p1", "r1", 1, 1)
        b == Course("c2", "p1", "r2", 1, 1)
        c == Course("c3", "p1", "r1", 1, 1)
        bad == Course("c3", "p1", "r1", 0, 1)
    IN  {GenerateCall(<<>>, <<mon1>>),
         GenerateCall(<<q1>>, <<mon1>>),
         GenerateCall(<<q1, q2>>, <<mon1>>),
         GenerateCall(<<q1, q2>>, <<mon1, mon2>>),
         GenerateCall(<<q1, q3>>, <<mon1, mon2>>),
         GenerateCall(<<q1, q2, q4>>, <<mon1, mon2>>),
         DetectCall("professor", <<a, b>>),
         DetectCall("classroom", <<a, b>>),
         DetectCall("professor", <<a, b, c>>),
         DetectCall("professor", <<bad, a>>)}

\* the objects of a call that has allocated nothing yet
EmptyFrame ==
    [model_requests |-> <<>>, model_timeslots |-> <<>>, value |-> <<>>,
     conflicts |-> <<>>, position |-> 1]

NoOutcome == [kind |-> "running"]

\* a lookup of the result loop that fails: course_timeslot_vars[req["id"]]
\* (KeyError) or available_timeslots[slot_idx] (IndexError)
LookupFailed == [type |-> "LookupError", message |-> ""]

\* all callers taking their objects from one place
FrameOf_shared(caller) == 1

\* where a call keeps the objects it allocates: "model = cp_model.CpModel()",
\* "solver = cp_model.CpSolver()", "conflicts = []" and the loop variables are
\* locals of the invocation
FrameOf(caller) == caller

InitConc ==
    /\ course_requests = <<>>
    /\ professors = <<>>
    /\ classrooms = <<>>
    /\ available_timeslots = <<>>
    /\ pc = "ready"
    /\ scheduled_courses = <<>>
    /\ error = NoException
    /\ solver_invoked = FALSE
    /\ db_professors = <<>>
    /\ db_classrooms = <<>>
    /\ db_courses = <<>>
    /\ response = NoResponse
    /\ NoDetectorInput
    /\ NoSlotCall
    /\ conc_calls \in [Callers -> ConcCalls]
    /\ conc_pc = [c \in Callers |-> "start"]
    /\ conc_frames = [c \in Callers |-> EmptyFrame]
    /\ conc_outcome = [c \in Callers |-> NoOutcome]

Finish(caller, outcome) ==
    /\ conc_pc' = [conc_pc EXCEPT ![caller] = "done"]
    /\ conc_outcome' = [conc_outcome EXCEPT ![caller] = outcome]

\* generate_schedule up to the call of Solve: the early return, or the CpModel
\* with its variables and constraints
GenBuildModel(caller) ==
    LET call == conc_calls[caller]
    IN  /\ conc_pc[caller] = "start"
        /\ call.op = "generate"
        /\ IF Len(call.course_requests) = 0
           THEN /\ Finish(caller, Returned(<<>>, FALSE))
                /\ UNCHANGED conc_frames
           ELSE /\ conc_frames' =
                       [conc_frames EXCEPT
                           ![FrameOf(caller)].model_requests = call.course_requests,
                           ![FrameOf(caller)].model_timeslots = call.available_timeslots]
                /\ conc_pc' = [conc_pc EXCEPT ![caller] = "solve"]
                /\ UNCHANGED conc_outcome

\* solver = cp_model.CpSolver(); status = solver.Solve(model), and the raise
GenSolve(caller) ==
    LET frame == conc_frames[FrameOf(caller)]
    IN  /\ conc_pc[caller] = "solve"
        /\ IF SolveStatus(frame.model_requests, frame.model_timeslots)
                  \in {"OPTIMAL", "FEASIBLE"}
           THEN /\ \E value \in Solutions(frame.model_requests, frame.model_timeslots) :
                       conc_frames' = [conc_frames EXCEPT ![FrameOf(caller)].value = value]
                /\ conc_pc' = [conc_pc EXCEPT ![caller] = "build"]
                /\ UNCHANGED conc_outcome
           ELSE /\ Finish(caller, Raised(NoValidSchedule, TRUE))
                /\ UNCHANGED conc_frames

\* the loop that builds scheduled_courses, and the return
GenBuildResult(caller) ==
    LET call == conc_calls[caller]
        value == conc_frames[FrameOf(caller)].value
    IN  /\ conc_pc[caller] = "build"
        /\ IF \A k \in 1..Len(call.course_requests) :
                  /\ call.course_requests[k].id \in DOMAIN value
                  /\ value[call.course_requests[k].id] + 1
                         \in 1..Len(call.available_timeslots)
           THEN Finish(caller, Returned(BuildCourses(call.course_requests,
                                                     call.available_timeslots, value),
                                        TRUE))
           ELSE Finish(caller, Raised(LookupFailed, TRUE))
        /\ UNCHANGED conc_frames

\* a detector method up to the loops: conflicts = []
DetBegin(caller) ==
    /\ conc_pc[caller] = "start"
    /\ conc_calls[caller].op = "detect"
    /\ conc_frames' = [conc_frames EXCEPT ![FrameOf(caller)].conflicts = <<>>,
                                          ![FrameOf(caller)].position = 1]
    /\ conc_pc' = [conc_pc EXCEPT ![caller] = "loop"]
    /\ UNCHANGED conc_outcome

\* one round of the inner loop, or "return conflicts" after the last
DetStep(caller) ==
    LET call == conc_calls[caller]
        frame == conc_frames[FrameOf(caller)]
        pairs == LoopPairs(Len(call.courses), 1, 2)
    IN  /\ conc_pc[caller] = "loop"
        /\ IF frame.position > Len(pairs)
           THEN /\ Finish(caller, [kind |-> "returned", conflicts |-> frame.conflicts,
                                   error |-> NoException])
                /\ UNCHANGED conc_frames
           ELSE LET course_a == call.courses[pairs[frame.position][1]]
                    course_b == call.courses[pairs[frame.position][2]]
                IN  IF ~resource_matcher(call.method, course_a, course_b)
                    THEN /\ conc_frames' = [conc_frames EXCEPT
                                ![FrameOf(caller)].position = frame.position + 1]
                         /\ UNCHANGED <<conc_pc, conc_outcome>>
                    ELSE IF timeslot_raises(course_a) \/ timeslot_raises(course_b)
                    THEN /\ Finish(caller,
                                   [kind |-> "raised", conflicts |-> <<>>,
                                    error |-> IF timeslot_raises(course_a)
                                              THEN timeslot_error(course_a)
                                              ELSE timeslot_error(course_b)])
                         /\ UNCHANGED conc_frames
                    ELSE /\ conc_frames' = [conc_frames EXCEPT
                                ![FrameOf(caller)].position = frame.position + 1,
                                ![FrameOf(caller)].conflicts =
                                    IF timeslot(course_a) = timeslot(course_b)
                                    THEN Append(frame.conflicts, <<course_a, course_b>>)
                                    ELSE frame.conflicts]
                         /\ UNCHANGED <<conc_pc, conc_outcome>>

NextConc ==
    \E caller \in Callers :
        /\ \/ GenBuildModel(caller)
           \/ GenSolve(caller)
           \/ GenBuildResult(caller)
           \/ DetBegin(caller)
           \/ DetStep(caller)
        /\ UNCHANGED <<conc_calls, inputs, pc, scheduled_courses, error, solver_invoked,
                       db, response, det_vars, slot_vars>>

SpecConc == InitConc /\ [][NextConc]_vars

(***************************************************************************)
(* Properties of generate_schedule (checked under SpecGen unless a         *)
(* property says otherwise)                                                *)
(***************************************************************************)
Called == pc # "ready"

Indices(seq) == 1..Len(seq)

DistinctIds(reqs) ==
    \A i, j \in Indices(reqs) : i # j => reqs[i].id # reqs[j].id

SlotValues(slots) == {slots[i] : i \in Indices(slots)}

\* size of the largest group of requests naming the same professor or room
LargestGroup(reqs) ==
    LET sizes == {Cardinality({i \in Indices(reqs) : reqs[i].professor_id = p}) : p \in ProfIds}
                 \cup {Cardinality({i \in Indices(reqs) : reqs[i].classroom_id = r}) : r \in RoomIds}
    IN  CHOOSE n \in sizes : \A m \in sizes : m <= n

\* C1: whenever generate_schedule returns, two distinct returned sections
\* with the same professor_id have different TimeSlots, and so have two
\* distinct returned sections with the same classroom_id.
C1_NoDoubleBooking ==
    pc = "returned" =>
        \A i, j \in Indices(scheduled_courses) :
            LET a == scheduled_courses[i]
                b == scheduled_courses[j]
            IN  (i # j /\ (a.professor_id = b.professor_id \/ a.classroom_id = b.classroom_id))
                    => timeslot(a) # timeslot(b)

\* a mapping of the requests to available slots in which requests sharing an
\* instructor or a room get different slots
SlotMappingExists(reqs, slots) ==
    \E m \in [Indices(reqs) -> SlotValues(slots)] :
        \A i, j \in Indices(reqs) :
            (i # j /\ (reqs[i].professor_id = reqs[j].professor_id
                       \/ reqs[i].classroom_id = reqs[j].classroom_id))
                => m[i] # m[j]

\* C2: for a non-empty request list with pairwise distinct ids and a non-empty
\* slot list, generate_schedule fails with the infeasibility error exactly
\* when no mapping of the requests to available slots separates the requests
\* that share an instructor or a room; otherwise it returns a schedule.
C2_InfeasibleIffNoMapping ==
    (Called /\ Len(course_requests) > 0 /\ DistinctIds(course_requests)
            /\ Len(available_timeslots) > 0)
        => IF SlotMappingExists(course_requests, available_timeslots)
           THEN pc = "returned"
           ELSE pc = "raised" /\ error = NoValidSchedule

\* C3: with fewer distinct TimeSlot values than the largest instructor group
\* or room group has requests, generate_schedule fails with the infeasibility
\* error and returns no assignment.
C3_Pigeonhole ==
    (Called /\ Cardinality(SlotValues(available_timeslots)) < LargestGroup(course_requests))
        => pc = "raised" /\ error = NoValidSchedule /\ scheduled_courses = <<>>

\* C4: on success there is exactly one section per request, in the order of
\* course_requests, and the k-th section carries the k-th request's id,
\* professor_id and classroom_id.
C4_OneSectionPerRequestInOrder ==
    pc = "returned" =>
        /\ Len(scheduled_courses) = Len(course_requests)
        /\ \A k \in Indices(course_requests) :
            /\ scheduled_courses[k].id = course_requests[k].id
            /\ scheduled_courses[k].professor_id = course_requests[k].professor_id
            /\ scheduled_courses[k].classroom_id = course_requests[k].classroom_id

C4_Witness ==
    /\ pc = "returned"
    /\ Len(scheduled_courses) = 2
    /\ course_requests[1].id # course_requests[2].id
    /\ course_requests[1].professor_id # course_requests[2].professor_id
    /\ course_requests[1].classroom_id # course_requests[2].classroom_id

\* C5: the timeslot of every returned section is an element of the
\* available_timeslots list of the call.
C5_SlotsComeFromAvailable ==
    pc = "returned" =>
        \A k \in Indices(scheduled_courses) :
            timeslot(scheduled_courses[k]) \in SlotValues(available_timeslots)

C5_Witness ==
    /\ pc = "returned"
    /\ Len(scheduled_courses) = 2
    /\ timeslot(scheduled_courses[1]) = TimeSlot("TUESDAY", 1)
    /\ timeslot(scheduled_courses[2]) = TimeSlot("MONDAY", 2)

\* C6: a call with an empty request list returns an empty list without
\* error, whatever available_timeslots holds.
C6_EmptyRequestsGiveEmptySchedule ==
    (Called /\ course_requests = <<>>)
        => pc = "returned" /\ scheduled_courses = <<>> /\ error = NoException

C6_Witness ==
    /\ pc = "returned"
    /\ course_requests = <<>>
    /\ available_timeslots = <<>>

\* C7 (under SpecApi): when the generator called by POST
\* /courses/schedules/generate fails, it hands back no section, the endpoint
\* answers 400 and the stored courses are what they were before the request.
C7_InfeasibleStoresNothing ==
    [][pc' = "raised" =>
          /\ scheduled_courses' = <<>>
          /\ response'.op = "generate"
          /\ response'.status = 400
          /\ response'.courses = <<>>
          /\ db_courses' = db_courses]_vars

C7_Witness ==
    /\ pc = "raised"
    /\ error = NoValidSchedule
    /\ response.status = 400
    /\ Len(course_requests) = 2

\* C8: a request list in which two requests carry the same id is rejected
\* before the solver is invoked, and no schedule is returned for it.
C8_DuplicateIdsRejected ==
    (Called /\ ~DistinctIds(course_requests))
        => pc = "raised" /\ ~solver_invoked

\* C9: a call with at least one request and no available slot fails before
\* the solver is invoked, with a failure other than the infeasibility error.
C9_EmptySlotsRejectedEarly ==
    (Called /\ Len(course_requests) > 0 /\ available_timeslots = <<>>)
        => pc = "raised" /\ ~solver_invoked /\ error # NoValidSchedule

OtherProfessors(profs) ==
    IF profs = <<>> THEN <<Professor("p1")>>
    ELSE IF Len(profs) = 1 THEN <<Professor("p1"), Professor("p2")>>
    ELSE <<>>

OtherClassrooms(rooms) ==
    IF rooms = <<>> THEN <<Classroom("r1"), Classroom("r2")>> ELSE <<>>

\* C11: the outcome of a call does not depend on the professors and classrooms
\* arguments: the outcome observed with the catalogs of the call is a possible
\* outcome of the call with other catalogs, empty ones and ones lacking a
\* referenced id included. (Holding for every pair of catalogs and its
\* replacement, it makes the possible outcomes the same for all pairs.)
C11_CatalogsIgnored ==
    Called =>
        /\ OtherProfessors(professors) \in ProfessorLists \ {professors}
        /\ OtherClassrooms(classrooms) \in ClassroomLists \ {classrooms}
        /\ [kind |-> pc, courses |-> scheduled_courses, error |-> error,
            solved |-> solver_invoked]
               \in generate_schedule(course_requests, OtherProfessors(professors),
                                     OtherClassrooms(classrooms), available_timeslots)

\* a schedule is returned although the catalogs are empty, resp. lack p2
C11_Witness ==
    /\ pc = "returned"
    /\ Len(scheduled_courses) = 2
    /\ professors = <<Professor("p1")>>
    /\ classrooms = <<>>
    /\ \E i \in Indices(course_requests) : course_requests[i].professor_id = "p2"

DetReturns == {k \in Indices(det_history) : det_history[k].kind = "returned"}

DetRaises == {k \in Indices(det_history) : det_history[k].kind = "raised"}

\* the resource id the called method compares
ResourceId(course) ==
    IF det_method = "professor" THEN course.professor_id ELSE course.classroom_id

\* positions i < j of det_courses holding sections of one resource in one
\* weekday and period
Clash(i, j) ==
    /\ i < j
    /\ ResourceId(det_courses[i]) = ResourceId(det_courses[j])
    /\ det_courses[i].weekday = det_courses[j].weekday
    /\ det_courses[i].period = det_courses[j].period

ClashingPairs == {p \in Indices(det_courses) \X Indices(det_courses) : Clash(p[1], p[2])}

CoursePair(p) == <<det_courses[p[1]], det_courses[p[2]]>>

\* C13: whenever a detector method returns, the returned pairs are exactly the
\* pairs (courses[i], courses[j]), i < j, of sections with equal resource id
\* (professor_id for find_professor_conflicts, classroom_id for
\* find_classroom_conflicts) and the same weekday and period.
C13_PairsAreExactlyTheClashes ==
    \A k \in DetReturns :
        LET conflicts == det_history[k].conflicts
        IN  /\ \A p \in ClashingPairs :
                   \E n \in Indices(conflicts) : conflicts[n] = CoursePair(p)
            /\ \A n \in Indices(conflicts) :
                   \E p \in ClashingPairs : conflicts[n] = CoursePair(p)

\* three sections of which exactly the first and the last clash on the
\* professor, the middle one sharing only the room with them
C13_Witness ==
    /\ DetReturns # {}
    /\ det_method = "professor"
    /\ Len(det_courses) = 3
    /\ ClashingPairs = {<<1, 3>>}
    /\ det_courses[1].classroom_id = det_courses[2].classroom_id
    /\ det_courses[1].period = det_courses[2].period
    /\ det_history[1].conflicts = <<CoursePair(<<1, 3>>)>>

LexLess(p, q) == p[1] < q[1] \/ (p[1] = q[1] /\ p[2] < q[2])

\* position of a clashing index pair in ascending lexicographic order
LexRank(p) == Cardinality({q \in ClashingPairs : LexLess(q, p)}) + 1

\* C14: the returned list holds the conflicting pairs in ascending
\* lexicographic order of their index pairs (i, j), the section at the smaller
\* index first in each pair.
C14_PairsInLexicographicOrder ==
    \A k \in DetReturns :
        LET conflicts == det_history[k].conflicts
        IN  /\ Len(conflicts) = Cardinality(ClashingPairs)
            /\ \A p \in ClashingPairs : conflicts[LexRank(p)] = CoursePair(p)

\* three sections of one professor and slot: pairs (1,2), (1,3), (2,3) in order
C14_Witness ==
    /\ DetReturns # {}
    /\ ClashingPairs = {<<1, 2>>, <<1, 3>>, <<2, 3>>}
    /\ det_courses[1].id = "c1" /\ det_courses[2].id = "c2" /\ det_courses[3].id = "c3"
    /\ det_history[1].conflicts =
           <<CoursePair(<<1, 2>>), CoursePair(<<1, 3>>), CoursePair(<<2, 3>>)>>

\* C15: whatever the input list holds, a returned pair never has the same
\* section as both of its elements.
C15_NoPairOfASectionWithItself ==
    \A k \in DetReturns :
        \A n \in Indices(det_history[k].conflicts) :
            det_history[k].conflicts[n][1] # det_history[k].conflicts[n][2]

Unordered(pair) == {pair[1], pair[2]}

\* C16: in a returned list no unordered pair of sections appears twice,
\* neither as (a, b) and (b, a) nor twice as (a, b).
C16_EachUnorderedPairAtMostOnce ==
    \A k \in DetReturns :
        \A n, m \in Indices(det_history[k].conflicts) :
            n # m => Unordered(det_history[k].conflicts[n])
                        # Unordered(det_history[k].conflicts[m])

\* the orderings of a list
PermutationsOf(courses) ==
    {[i \in Indices(courses) |-> courses[f[i]]] : f \in Permutations(Indices(courses))}

\* the unordered id-pairs of a list of pairs
IdPairs(conflicts) ==
    {{conflicts[n][1].id, conflicts[n][2].id} : n \in Indices(conflicts)}

\* C17: the called method reports the same set of unordered id-pairs for
\* every permutation of the list it was called on.
C17_IdPairsInvariantUnderPermutation ==
    \A k \in DetReturns :
        \A permuted \in PermutationsOf(det_courses) :
            LET outcome == find_conflicts_call(permuted, det_method)
            IN  /\ outcome.kind = "returned"
                /\ IdPairs(outcome.conflicts) = IdPairs(det_history[k].conflicts)

\* (a, x, b) with a and b clashing, found although they are not neighbours
C17_Witness ==
    /\ DetReturns # {}
    /\ Len(det_courses) = 3
    /\ ClashingPairs = {<<1, 3>>}
    /\ IdPairs(det_history[1].conflicts) = {{"c1", "c2"}}

C19_NoErrorOutcome ==
    \A k \in Indices(det_history) :
        /\ det_history[k].kind = "returned"
        /\ Len(det_courses) <= 1 => det_history[k].conflicts = <<>>

\* the entries of a list are pairwise distinct sections
DistinctSections(courses) ==
    \A i, j \in Indices(courses) : i # j => courses[i] # courses[j]

\* sets of positions whose sections share the resource id, weekday and period
SharingGroups ==
    {G \in SUBSET Indices(det_courses) :
        \A i, j \in G : i < j => Clash(i, j)}

\* C20: when a list of distinct sections is checked and k of them share the
\* resource id and the timeslot, the returned list holds exactly k*(k-1)/2
\* pairs among those k sections.
C20_PairwiseNotPerGroup ==
    \A k \in DetReturns :
        DistinctSections(det_courses) =>
            \A G \in SharingGroups :
                LET members == {det_courses[i] : i \in G}
                    conflicts == det_history[k].conflicts
                IN  Cardinality({n \in Indices(conflicts) :
                                    /\ conflicts[n][1] \in members
                                    /\ conflicts[n][2] \in members})
                        = (Cardinality(G) * (Cardinality(G) - 1)) \div 2

\* three sections c1, c2, c3 of one resource in one slot: three pairs
C20_Witness ==
    /\ DetReturns # {}
    /\ DistinctSections(det_courses)
    /\ {det_courses[i].id : i \in Indices(det_courses)} = {"c1", "c2", "c3"}
    /\ {1, 2, 3} \in SharingGroups
    /\ Len(det_history[1].conflicts) = 3

(***************************************************************************)
(* Concurrent calls (checked under SpecConc)                               *)
(***************************************************************************)
\* the outcomes a call can have when it runs alone on its arguments
AloneOutcomes(call) ==
    IF call.op = "generate"
    THEN generate_schedule(call.course_requests, <<>>, <<>>, call.available_timeslots)
    ELSE {find_conflicts_call(call.courses, call.method)}

\* C12: under every interleaving of the concurrent calls, the outcome of each
\* finished call is one the call can have when run alone on its own arguments.
C12_ConcurrentCallsAreIsolated ==
    \A caller \in Callers :
        conc_pc[caller] = "done" =>
            conc_outcome[caller] \in AloneOutcomes(conc_calls[caller])

\* a generate_schedule call has returned two sections while a detector call
\* of another caller, begun before, has appended a pair and is still looping
C12_Witness ==
    \E g, d \in Callers :
        /\ conc_calls[g].op = "generate"
        /\ conc_pc[g] = "done"
        /\ conc_outcome[g].kind = "returned"
        /\ Len(conc_outcome[g].courses) = 2
        /\ conc_calls[d].op = "detect"
        /\ conc_pc[d] = "loop"
        /\ conc_frames[FrameOf(d)].conflicts # <<>>

(***************************************************************************)
(* TimeSlot values (checked under SpecSlot)                                *)
(***************************************************************************)
\* C21: the construction of a TimeSlot succeeds exactly when the period is in
\* 1..12; then the value carries the weekday and period it was given, and
\* otherwise the construction raises and no value exists.
C21_PeriodCheckedAtConstruction ==
    \A k \in Indices(slot_results) :
        LET weekday == slot_args[k][1]
            period == slot_args[k][2]
            result == slot_results[k]
        IN  /\ result.kind = "returned" <=> (1 <= period /\ period <= 12)
            /\ result.kind = "returned" =>
                   result.value = <<[weekday |-> weekday, period |-> period]>>
            /\ result.kind # "returned" =>
                   /\ result.kind = "raised"
                   /\ result.value = <<>>
                   /\ result.error.type = "ValueError"

\* period 13 has been rejected and period 12 accepted
C21_Witness ==
    /\ slot_results # <<>>
    /\ slot_args[1][2] = 13 /\ slot_results[1].kind = "raised"
    /\ slot_args[2][2] = 12 /\ slot_results[2].kind = "returned"

\* C22: two TimeSlots compare equal iff their weekdays and their periods are
\* equal, and a valid TimeSlot flattened into a Course by from_timeslot comes
\* back equal from Course.timeslot.
C22_StructuralEqualityAndRoundTrip ==
    /\ slot_equal # <<>> =>
           (slot_equal[1] <=> /\ slot_args[1][1] = slot_args[2][1]
                              /\ slot_args[1][2] = slot_args[2][2])
    /\ slot_round_trip # <<>> =>
           /\ slot_round_trip[1].weekday = slot_args[1][1]
           /\ slot_round_trip[1].period = slot_args[1][2]
           /\ TimeSlot_eq(slot_round_trip[1], slot_results[1].value[1])

\* Friday period 12 has come back from a Course, and has compared unequal to
\* Thursday period 12
C22_Witness ==
    /\ slot_args = <<(<<"FRIDAY", 12>>), <<"THURSDAY", 12>>>>
    /\ slot_equal = <<FALSE>>
    /\ slot_round_trip = <<TimeSlot("FRIDAY", 12)>>

SharesResource(a, b) ==
    a.professor_id = b.professor_id \/ a.classroom_id = b.classroom_id

\* an assignment of slot indices that separates the requests of different id
\* sharing a professor or a classroom
SeparatesSharing(reqs, value) ==
    \A i, j \in Indices(reqs) :
        (reqs[i].id # reqs[j].id /\ SharesResource(reqs[i], reqs[j]))
            => value[reqs[i].id] # value[reqs[j].id]

\* C28: the assignment a successful Solve leaves gives requests of different
\* id that share a professor_id or a classroom_id different indices into
\* available_timeslots, every index in 0..len(available_timeslots)-1; and
\* nothing else is constrained: every assignment of such indices that
\* separates the sharing requests is one the solver may return.
C28_SharingRequestsGetDifferentIndices ==
    \A caller \in Callers :
        LET call == conc_calls[caller]
            reqs == call.course_requests
            last == Len(call.available_timeslots) - 1
            value == conc_frames[FrameOf(caller)].value
        IN  /\ (call.op = "generate" /\ conc_pc[caller] = "build") =>
                   /\ \A i \in Indices(reqs) :
                          0 <= value[reqs[i].id] /\ value[reqs[i].id] <= last
                   /\ SeparatesSharing(reqs, value)
            /\ (call.op = "generate" /\ conc_pc[caller] = "solve") =>
                   \A other \in [{reqs[i].id : i \in Indices(reqs)} -> 0..last] :
                       SeparatesSharing(reqs, other) =>
                           other \in Solutions(conc_frames[FrameOf(caller)].model_requests,
                                               conc_frames[FrameOf(caller)].model_timeslots)

\* c1 shares the professor with c2 and the room with c3 and has another index
\* than both; c2 and c3 share nothing and have the same index
C28_Witness ==
    \E caller \in Callers :
        /\ conc_pc[caller] = "build"
        /\ Len(conc_calls[caller].course_requests) = 3
        /\ conc_frames[FrameOf(caller)].value["c1"] = 1
        /\ conc_frames[FrameOf(caller)].value["c2"] = 0
        /\ conc_frames[FrameOf(caller)].value["c3"] = 0

(***************************************************************************)
(* The courses API (checked under SpecApi; C24, C25 and C26 under           *)
(* SpecApiShort)                                                           *)
(***************************************************************************)
StoredProfessor(id) == \E k \in Indices(db_professors) : db_professors[k].id = id

StoredClassroom(id) == \E k \in Indices(db_classrooms) : db_classrooms[k].id = id

Mentions(detail, text) == \E k \in Indices(detail) : detail[k] = text

\* C23: when POST /courses/schedules/generate has answered 200, a following
\* POST /courses/check-conflicts reports no professor conflict and no
\* classroom conflict.
C23_NoConflictAfterGenerate ==
    [][(response.op = "generate" /\ response.status = 200
            /\ response'.op = "check_conflicts")
          => /\ response'.professor_conflicts = 0
             /\ response'.classroom_conflicts = 0]_vars

\* C24: POST /courses/schedules/generate with a request naming a professor or
\* a classroom that is not stored answers 404, names the professors exactly
\* when a professor is missing and the classrooms exactly when a classroom is
\* missing, does not call the generator and leaves the store as it was.
C24_MissingResourceAnswers404 ==
    [][response'.op = "generate" =>
          \A reqs \in SeqsUpTo(ApiRequests, MaxShortReq) :
              LET no_prof == \E i \in Indices(reqs) : ~StoredProfessor(reqs[i].professor_id)
                  no_room == \E i \in Indices(reqs) : ~StoredClassroom(reqs[i].classroom_id)
              IN  ((no_prof \/ no_room) /\ generate_schedule_endpoint(reqs))
                      => /\ response'.status = 404
                         /\ Mentions(response'.detail, "Professors not found") <=> no_prof
                         /\ Mentions(response'.detail, "Classrooms not found") <=> no_room
                         /\ pc' = "ready"
                         /\ ~solver_invoked'
                         /\ db_professors' = db_professors
                         /\ db_classrooms' = db_classrooms
                         /\ db_courses' = db_courses]_vars

\* a stored professor and classroom exist, and a request naming another
\* professor was answered 404 with the professors only
C24_Witness ==
    /\ response.op = "generate"
    /\ response.status = 404
    /\ response.detail = <<"Professors not found">>
    /\ db_professors # <<>>
    /\ db_classrooms # <<>>
    /\ db_courses # <<>>

\* C25: POST /courses/ answers 400 to an invalid timeslot (weekday outside
\* 1..5 or period outside 1..12), otherwise 404 naming the professor when the
\* professor is not stored, otherwise 404 naming the classroom when the
\* classroom is not stored, each time leaving the store as it was; a course is
\* stored only when none of the three applies.
C25_CourseStoredOnlyWhenValid ==
    [][response'.op = "create_course" =>
          \A id \in ApiCourseIds, name \in CourseNames, p \in ProfIds, r \in ApiRoomIds,
             weekday \in WeekdayInputs, period \in PeriodInputs :
              LET valid == /\ 1 <= weekday /\ weekday <= 5
                           /\ 1 <= period /\ period <= 12
                  unchanged == /\ db_professors' = db_professors
                               /\ db_classrooms' = db_classrooms
                               /\ db_courses' = db_courses
              IN  create_course(id, name, p, r, weekday, period) =>
                      /\ ~valid => response'.status = 400 /\ unchanged
                      /\ (valid /\ ~StoredProfessor(p)) =>
                             /\ response'.status = 404
                             /\ response'.detail = <<"Professor not found">>
                             /\ unchanged
                      /\ (valid /\ StoredProfessor(p) /\ ~StoredClassroom(r)) =>
                             /\ response'.status = 404
                             /\ response'.detail = <<"Classroom not found">>
                             /\ unchanged
                      /\ ~unchanged =>
                             /\ valid /\ StoredProfessor(p) /\ StoredClassroom(r)
                             /\ db_courses' = Append(db_courses,
                                    [id |-> id, name |-> name, professor_id |-> p,
                                     classroom_id |-> r, weekday |-> weekday,
                                     period |-> period])]_vars

\* with p1 stored and p2 not, a course of p1 was stored and a later request
\* for a course of p2 was answered 404
C25_Witness ==
    /\ response.op = "create_course"
    /\ response.status = 404
    /\ response.detail = <<"Professor not found">>
    /\ db_professors # <<>>
    /\ db_classrooms # <<>>
    /\ Len(db_courses) = 1

\* the positions i < j of stored courses with the same professor or classroom
\* (as "which" says) and the same weekday and period
StoredClashes(which) ==
    {p \in Indices(db_courses) \X Indices(db_courses) :
        /\ p[1] < p[2]
        /\ IF which = "professor"
           THEN db_courses[p[1]].professor_id = db_courses[p[2]].professor_id
           ELSE db_courses[p[1]].classroom_id = db_courses[p[2]].classroom_id
        /\ db_courses[p[1]].weekday = db_courses[p[2]].weekday
        /\ db_courses[p[1]].period = db_courses[p[2]].period}

\* C26: POST /courses/check-conflicts reports as professor_conflicts the
\* number of pairs of stored courses with equal professor_id, weekday and
\* period, as classroom_conflicts the number with equal classroom_id, weekday
\* and period, lists as many details of each kind, and leaves the store as it
\* was.
C26_CheckConflictsCountsPairs ==
    [][response'.op = "check_conflicts" =>
          /\ response'.status = 200
          /\ response'.professor_conflicts = Cardinality(StoredClashes("professor"))
          /\ response'.classroom_conflicts = Cardinality(StoredClashes("classroom"))
          /\ Len(response'.prof_details) = response'.professor_conflicts
          /\ Len(response'.room_details) = response'.classroom_conflicts
          /\ db_professors' = db_professors
          /\ db_classrooms' = db_classrooms
          /\ db_courses' = db_courses]_vars

\* two stored courses of different professors in one room and slot: no
\* professor conflict, one classroom conflict
C26_Witness ==
    /\ response.op = "check_conflicts"
    /\ Len(db_courses) = 2
    /\ response.professor_conflicts = 0
    /\ response.classroom_conflicts = 1
    /\ Len(response.room_details) = 1

\* C29: every stored course has a weekday in 1..5 and a period in 1..12, and
\* its professor_id and classroom_id are the ids of a stored professor and a
\* stored classroom.
C29_StoredCoursesAreValid ==
    \A k \in Indices(db_courses) :
        /\ 1 <= db_courses[k].weekday /\ db_courses[k].weekday <= 5
        /\ 1 <= db_courses[k].period /\ db_courses[k].period <= 12
        /\ StoredProfessor(db_courses[k].professor_id)
        /\ StoredClassroom(db_courses[k].classroom_id)

\* the store holds a course made by POST /courses/ (period 12) and one made
\* by schedules/generate
C29_Witness ==
    /\ Len(db_courses) = 2
    /\ db_courses[1].period = 12
    /\ response.op = "generate"
    /\ response.status = 200
    /\ response.courses = <<db_courses[2]>>

\* C30: a POST /courses/schedules/generate request stores either every course
\* the generator returned or none of them.
C30_ScheduleStoredWhollyOrNotAtAll ==
    [][response'.op = "generate" =>
          \/ db_courses' = db_courses
          \/ db_courses' = db_courses \o scheduled_courses']_vars

====
